---- MODULE Spec2Model ----
(***************************************************************************)
(* The page-flip sequencer of front-end/components/FlipBook.jsx together   *)
(* with the page unit of front-end/components/FlipPage.jsx.                *)
(*                                                                         *)
(* The React component state of FlipBook (useState hooks) and the refs it  *)
(* keeps are the variables.  One action stands for one handler, effect or  *)
(* timer callback together with the re-render React commits after it.      *)
(* Page indices are zero-based as in the source; an array of length n is   *)
(* a function with domain 0..n-1.                                          *)
(***************************************************************************)
EXTENDS Integers, Sequences, FiniteSets, TLC

(* ----- bounds of the model ----- *)
\* length of pageStructure (13 in the source, FlipBook.jsx:146-287)
NumPages == 3
\* targets range over -MaxOver .. NumPages + MaxOver
MaxOver == 1
\* number of calls of flipToPage in one behaviour
MaxRequests == 3
\* number of arrivals of external data (player stats, matches, chat messages)
MaxData == 2
\* number of runs of the initialisation effect
MaxEffectRuns == 2

Targets == (0 - MaxOver)..(NumPages + MaxOver)

VARIABLES
  timelineResult,  \* truthiness of the TimelineContext value
  isInitialized,   \* isInitialized.current
  effectRuns,      \* history: number of runs of the initialisation effect
  pages,           \* the page descriptors, in order
  dataVersion,     \* the external data of the host: the number of arrivals so far
  rendered,        \* the page contents passed to the FlipPage units by the last render
  zIndices,
  flippedStates,
  currentPage,
  onFirstPage,
  onLastPage,
  isTurning,
  pageRefs,        \* pageRefs.current: "refobj" (React.createRef()), "handle" ({flip}), "null"
  isFlipped,       \* the local isFlipped of each FlipPage
  cbPage,          \* currentPage as closed over by the flipToPage of the last render
  cbTurning,       \* isTurning as closed over by the flipToPage of the last render
  pc,              \* position of the one running flipToPage call: "idle", "step", "settle", "thrown"
  loopI,           \* the loop variable i of the pending step timer
  navFrom,         \* currentPage as captured by the running/last accepted call
  navTarget,       \* targetPage of the running/last accepted call
  nReq,            \* history: number of click events so far
  lastTarget,      \* history: targetPage of the last call
  lastOutcome,     \* history: "none", "same", "busy", "accepted", "pageclick"
  lastClicked,     \* history: the last click: the leaf clicked (-1 if none) and the
                   \* targetPage of its bookmark (the leaf itself for a click on a face)
  flipLog,         \* history: page indices handleFlip was called with since the last accepted call
  lastFlipped,     \* history: page index of the last handleFlip, -1 if none
  nCues,           \* history: number of Audio objects played since the last accepted call
  lastCue,         \* history: the file of the Audio played in the step just taken, "none" if none
  lastPlay,        \* history: how its play() promise ends: "none", "played", "rejected"
  missed,          \* history: a step of the running/last accepted call found no page unit
  pending,         \* history: the loop variables of the step timers that are armed
  seqMounted,      \* history: the pages stayed rendered since the last accepted call
  navPrefix        \* history: the flipped pages were 0..currentPage-1 at the last accepted call

(* the legacy book page, front-end/pages/book.js *)
VARIABLES
  bookFullscreen,  \* bookFullscreen of BookPage
  appFullscreen,   \* appFullscreen of BookPage
  introPc,         \* the mount effect's timers: "wait" (3500 ms), "expand" (1000 ms), "done"
  bookPage,        \* currentPage of BookPage
  bookTurning,     \* isTurning of BookPage
  bookSettle,      \* nextIndex of the armed 1000 ms timer of turnPage, 0 if none is armed
  classTimers,     \* the armed class timers of turnPage: element, class to set, delay
  turnClass,       \* the turn class of the elements .page-1 .. .page-13
  visibleOpposite, \* the one of .page-11 .. .page-13 that is not invisible
  bookReq,         \* history: number of bookmark clicks so far
  bookRequested,   \* history: the page of the last click
  bookOutcome      \* history: "none", "same", "busy", "accepted", "stuck"

\* the state of FlipBook and of its page units
flipBookVars ==
  <<timelineResult, isInitialized, effectRuns, pages, dataVersion, rendered,
    zIndices, flippedStates, currentPage, onFirstPage, onLastPage, isTurning,
    pageRefs, isFlipped, cbPage, cbTurning, pc, loopI, navFrom, navTarget, nReq,
    lastTarget, lastOutcome, lastClicked, flipLog, lastFlipped, nCues, lastCue,
    lastPlay, missed, pending, seqMounted, navPrefix>>

\* the state of BookPage
bookVars ==
  <<bookFullscreen, appFullscreen, introPc, bookPage, bookTurning, bookSettle,
    classTimers, turnClass, visibleOpposite, bookReq, bookRequested, bookOutcome>>

vars == <<flipBookVars, bookVars>>

\* the state that handleFlip writes
seqState == <<flippedStates, zIndices, currentPage, onFirstPage, onLastPage>>

(* ----- helpers ----- *)
\* the indices of an array of length n
Indices(n) == 0..(n - 1)

Len0(a) == Cardinality(DOMAIN a)

\* a[i] read the JavaScript way: undefined (falsy) outside the array
Truthy(a, i) == IF i \in DOMAIN a THEN a[i] ELSE FALSE

\* Math.max(...prevZ)
MaxZ(prevZ) == CHOOSE m \in {prevZ[i] : i \in DOMAIN prevZ} : \A j \in DOMAIN prevZ : prevZ[j] <= m

\* a cursor kept as a separate counter that every flip increments
FlippedCountIncr(updatedFlipped) == currentPage + 1

\* updatedFlipped.filter(Boolean).length
FlippedCount(updatedFlipped) == Cardinality({i \in DOMAIN updatedFlipped : updatedFlipped[i]})

\* exactly the first c pages are flipped
IsPrefix(flipped, c) == \A i \in DOMAIN flipped : flipped[i] <=> i < c

\* the pages are rendered (and their refs attached) once there is a timelineResult
Mounted == timelineResult /\ Len0(pages) > 0

(* ----- BookPage after construction, book.js:5-14, 99-199 ----- *)
\* the elements .page-i of the JSX
BookPages == 1..13

\* the bookmarks array: the page to turn to and the page shown opposite
Bookmarks ==
  {[page |-> 10, opposite |-> 11], [page |-> 9, opposite |-> 12],
   [page |-> 8, opposite |-> 13]}

BookInit ==
  /\ bookFullscreen = FALSE
  /\ appFullscreen = FALSE
  /\ introPc = "wait"
  /\ bookPage = 10
  /\ bookTurning = FALSE
  /\ bookSettle = 0
  /\ classTimers = {}
  /\ turnClass = [i \in BookPages |-> IF i <= 5 \/ i >= 11 THEN "turn" ELSE "none"]
  /\ visibleOpposite = 11
  /\ bookReq = 0
  /\ bookRequested = 0
  /\ bookOutcome = "none"

(* ----- state after construction: the useState/useRef initial values ----- *)
Init ==
  /\ timelineResult = FALSE
  /\ isInitialized = FALSE
  /\ effectRuns = 0
  /\ pages = [i \in Indices(0) |-> i]
  /\ dataVersion = 0
  /\ rendered = [i \in Indices(0) |-> i]
  /\ zIndices = [i \in Indices(0) |-> 0]
  /\ flippedStates = [i \in Indices(0) |-> FALSE]
  /\ currentPage = 0
  /\ onFirstPage = TRUE
  /\ onLastPage = FALSE
  /\ isTurning = FALSE
  /\ pageRefs = [i \in Indices(0) |-> "null"]
  /\ isFlipped = [i \in Indices(0) |-> FALSE]
  /\ cbPage = 0
  /\ cbTurning = FALSE
  /\ pc = "idle"
  /\ loopI = 0
  /\ navFrom = 0
  /\ navTarget = 0
  /\ nReq = 0
  /\ lastTarget = 0
  /\ lastOutcome = "none"
  /\ lastClicked = [page |-> -1, target |-> 0]
  /\ flipLog = <<>>
  /\ lastFlipped = -1
  /\ nCues = 0
  /\ lastCue = "none"
  /\ lastPlay = "none"
  /\ missed = FALSE
  /\ pending = {}
  /\ seqMounted = FALSE
  /\ navPrefix = FALSE
  /\ BookInit

(* ----- pageStructure, FlipBook.jsx:143-288 ----- *)
\* the placeholder strings of the front and of the back faces
FrontTokens == <<"search", "matchTimeline", "chatOutput">>

BackTokens == <<"social", "matchSelector", "chatInput">>

\* a face: a placeholder string (payload 0) or an element made from the data
\* of version payload - 1
Face(token, payload) == [token |-> token, payload |-> payload]

\* the descriptors of a book of total pages: two covers and, between them,
\* leaves with a placeholder on each face and a bookmark to themselves
PageStructure(total) ==
  [i \in Indices(total) |->
     IF i = 0 \/ i = total - 1
     THEN [id |-> i, cover |-> TRUE, frontCover |-> (i = 0),
           front |-> Face("none", 0), back |-> Face("none", 0), bookmark |-> -1]
     ELSE [id |-> i, cover |-> FALSE, frontCover |-> FALSE,
           front |-> Face(FrontTokens[((i - 1) % Len(FrontTokens)) + 1], 0),
           back |-> Face(BackTokens[((i - 1) % Len(BackTokens)) + 1], 0),
           bookmark |-> i]]

(* ----- getPageContent, FlipBook.jsx:366-407 ----- *)
IsFrontToken(t) == \E k \in 1..Len(FrontTokens) : FrontTokens[k] = t

IsBackToken(t) == \E k \in 1..Len(BackTokens) : BackTokens[k] = t

\* a content rebuilt around the data: the copy is keyed by the data it shows
GetPageContentRekeyed(page, data) ==
  [id |-> page.id + data, cover |-> page.cover, frontCover |-> page.frontCover,
   front |-> IF IsFrontToken(page.front.token)
             THEN Face(page.front.token, data + 1) ELSE page.front,
   back |-> IF IsBackToken(page.back.token)
            THEN Face(page.back.token, data + 1) ELSE page.back,
   bookmark |-> page.bookmark]

\* newPage = {...page} with the placeholders replaced by elements
GetPageContent(page, data) ==
  [page EXCEPT
     !.front = IF IsFrontToken(page.front.token)
               THEN Face(page.front.token, data + 1) ELSE page.front,
     !.back = IF IsBackToken(page.back.token)
              THEN Face(page.back.token, data + 1) ELSE page.back]

(* ----- the render that follows a state change, FlipBook.jsx:330-358 ----- *)
\* useCallback(..., []): the callback of the first render is kept
RenderedOnce(value, captured) == captured

\* useCallback(..., [currentPage, isTurning]): a change of either makes a new
\* flipToPage that closes over the values of that render
Rendered(value, captured) == value

\* the last conjunct of every action: React commits the render of the state
\* the handler or callback has set before the next event is handled
Render ==
  /\ cbPage' = Rendered(currentPage', cbPage)
  /\ cbTurning' = Rendered(isTurning', cbTurning)
  \* without a timelineResult the LOADING view is rendered, FlipBook.jsx:409-442
  /\ rendered' = IF timelineResult'
                 THEN [i \in DOMAIN pages' |-> GetPageContent(pages'[i], dataVersion')]
                 ELSE [i \in Indices(0) |-> i]

\* a step in which no Audio is played
Silent == lastCue' = "none" /\ lastPlay' = "none"

(* ----- the initialisation effect, FlipBook.jsx:291-304 ----- *)
InitZ(total) == [i \in Indices(total) |-> total - i + 1]

\* an effect without the guard
AlreadyInitializedNever == FALSE

\* if (isInitialized.current) return;
AlreadyInitialized == isInitialized

\* a run of the effect: the first one after mount, or a later one
InitEffect ==
  /\ effectRuns < MaxEffectRuns
  /\ effectRuns' = effectRuns + 1
  /\ IF AlreadyInitialized
     THEN UNCHANGED <<pages, zIndices, flippedStates, pageRefs, isFlipped, isInitialized>>
     ELSE /\ pages' = PageStructure(NumPages)
          /\ zIndices' = InitZ(NumPages)
          /\ flippedStates' = [i \in Indices(NumPages) |-> FALSE]
          \* createRef objects, replaced by the ref callbacks of the render
          \* that follows when the pages are rendered
          /\ pageRefs' = [i \in Indices(NumPages) |->
                            IF timelineResult THEN "handle" ELSE "refobj"]
          /\ isFlipped' = [i \in Indices(NumPages) |-> FALSE]
          /\ isInitialized' = TRUE
  /\ Silent
  /\ UNCHANGED <<timelineResult, currentPage, onFirstPage, onLastPage, isTurning,
                 pc, loopI, navFrom, navTarget, nReq, lastTarget, lastOutcome,
                 lastClicked, flipLog, lastFlipped, nCues,
                 missed, pending, seqMounted, navPrefix>>
  /\ UNCHANGED <<dataVersion, bookVars>>
  /\ Render

(* ----- the context value changes (setTimelineResult of a search that ----- *)
(* ----- resolves, pages/index.js:58,63): with a truthy value the      ----- *)
(* ----- LOADING branch (FlipBook.jsx:409-415) is left and the         ----- *)
(* ----- FlipPage units mount, each adopting its flipped prop          ----- *)
(* ----- (FlipPage.jsx:22-27); with a falsy one they unmount and       ----- *)
(* ----- their ref callbacks are called with null                      ----- *)
\* a flipped prop derived from the cursor
FlippedPropOfCursor(i) == i < currentPage

\* flipped={flippedStates[i]}, FlipBook.jsx:430
FlippedProp(i) == flippedStates[i]

\* a unit without the effect: the flag keeps its useState(false)
AdoptedFlagInitial(i) == FALSE

\* useEffect(() => setIsFlipped(flipped), [flipped]) with flipped={flippedStates[i]}
AdoptedFlag(i) == FlippedProp(i)

SetTimelineResult(truthy) ==
  /\ truthy # timelineResult
  /\ timelineResult' = truthy
  /\ pageRefs' = [i \in DOMAIN pageRefs |-> IF truthy THEN "handle" ELSE "null"]
  /\ isFlipped' = [i \in DOMAIN isFlipped |-> IF truthy THEN AdoptedFlag(i) ELSE FALSE]
  /\ seqMounted' = (seqMounted /\ truthy)
  /\ Silent
  /\ UNCHANGED <<isInitialized, pages, zIndices, flippedStates, currentPage,
                 onFirstPage, onLastPage, isTurning, pc, loopI, navFrom,
                 navTarget, nReq, lastTarget, lastOutcome, lastClicked, flipLog,
                 lastFlipped, nCues, missed, pending, navPrefix>>
  /\ UNCHANGED <<dataVersion, effectRuns, bookVars>>
  /\ Render

(* ----- the page descriptors, FlipBook.jsx:143-288 ----- *)
\* the first and the last descriptor are covers ({cover: ...})
IsCover(i) == i = 0 \/ i = Len0(pages) - 1

\* the first one has frontCover: true
IsFrontCover(i) == i = 0

(* ----- handleFlip, FlipBook.jsx:306-328 ----- *)
UpdatedFlipped(pageIndex, flipped) == [flippedStates EXCEPT ![pageIndex] = flipped]

\* a page raised to the current maximum, not above it
NewZToMax(prevZ, pageIndex) == [prevZ EXCEPT ![pageIndex] = MaxZ(prevZ)]

\* a draw-order bump relative to the page's own value
NewZOwnPlusOne(prevZ, pageIndex) == [prevZ EXCEPT ![pageIndex] = prevZ[pageIndex] + 1]

NewZ(prevZ, pageIndex) == [prevZ EXCEPT ![pageIndex] = MaxZ(prevZ) + 1]

FirstFlipped(updatedFlipped) == Truthy(updatedFlipped, 0)

\* the last entry read one past the end of the array
LastFlippedPastEnd(updatedFlipped) == Truthy(updatedFlipped, Len0(updatedFlipped))

LastFlipped(updatedFlipped) == Truthy(updatedFlipped, Len0(updatedFlipped) - 1)

HandleFlip(pageIndex, flipped) ==
  /\ flippedStates' = UpdatedFlipped(pageIndex, flipped)
  /\ zIndices' = NewZ(zIndices, pageIndex)
  /\ currentPage' = FlippedCount(UpdatedFlipped(pageIndex, flipped))
  /\ onFirstPage' = ~FirstFlipped(UpdatedFlipped(pageIndex, flipped))
  /\ onLastPage' = LastFlipped(UpdatedFlipped(pageIndex, flipped))
  /\ flipLog' = Append(flipLog, pageIndex)
  /\ lastFlipped' = pageIndex

(* ----- the sounds of a page unit, FlipPage.jsx:23,29-35 ----- *)
\* flipSounds after the mount effect: /audio/flip-(1).wav .. /audio/flip-(12).wav
FlipSounds ==
  <<"flip-(1)", "flip-(2)", "flip-(3)", "flip-(4)", "flip-(5)", "flip-(6)",
    "flip-(7)", "flip-(8)", "flip-(9)", "flip-(10)", "flip-(11)", "flip-(12)">>

\* the values of Math.floor(Math.random() * flipSounds.length)
Randoms == 0..(Len(FlipSounds) - 1)

\* flipSounds[random]
FlipSound(random) == FlipSounds[random + 1]

\* a cover sound chosen by the direction alone
CoverSoundByDirection(frontCover, newFlipState) ==
  IF newFlipState THEN "cover-open" ELSE "cover-close"

\* the sound of a cover, FlipPage.jsx:47-56
CoverSound(frontCover, newFlipState) ==
  IF frontCover
  THEN (IF newFlipState THEN "cover-open" ELSE "cover-close")
  ELSE (IF newFlipState THEN "cover-close" ELSE "cover-open")

\* the ways the promise of play() ends
PlayOutcomes == {"played", "rejected"}

\* a play() whose failure is thrown inside pageFlip
PlayThrowsOnReject(outcome) == outcome = "rejected"

\* .catch((e) => console.error(...)): a rejection is logged and goes no further
PlayThrows(outcome) == FALSE

(* ----- pageFlip, FlipPage.jsx:37-59 ----- *)
\* a flip that always reports true
NewFlipStateTrue(i) == TRUE

NewFlipState(i) == ~isFlipped[i]

PageFlip(i) ==
  /\ isFlipped' = [isFlipped EXCEPT ![i] = NewFlipState(i)]
  /\ HandleFlip(i, NewFlipState(i))
  /\ IF ~IsCover(i)
     THEN \E random \in Randoms : lastCue' = FlipSound(random)
     ELSE lastCue' = CoverSound(IsFrontCover(i), NewFlipState(i))
  /\ \E outcome \in PlayOutcomes : lastPlay' = outcome
  /\ nCues' = nCues + 1

(* ----- flipToPage, FlipBook.jsx:330-358 ----- *)
\* flipToPage without its same-page guard
SamePageNever(targetPage) == FALSE

\* the two early returns
SamePage(targetPage) == targetPage = cbPage

\* flipToPage without its in-flight guard
BusyNever == FALSE

Busy == cbTurning

\* first value of the loop variable
FirstI(targetPage) == IF targetPage > cbPage THEN cbPage ELSE cbPage - 1

\* the loop condition for loop variable i of a call from cursor from to target
LoopCond(from, target, i) == IF target > from THEN i < target ELSE i >= target

\* i++ / i--
NextI(from, target, i) == IF target > from THEN i + 1 ELSE i - 1

\* a loop that does not await its timers arms all remaining steps at once
TimersArmedAtOnce(from, target, i) ==
  {j \in Targets : LoopCond(from, target, j) /\
                   (IF target > from THEN j >= i ELSE j <= i)}

\* await new Promise(... setTimeout(..., 800)): the loop arms the timer of
\* step i and goes no further before it has fired
TimersArmed(from, target, i) == IF LoopCond(from, target, i) THEN {i} ELSE {}

FlipToPage(targetPage) ==
  /\ Mounted                         \* the only caller is a rendered bookmark
  /\ nReq < MaxRequests
  /\ nReq' = nReq + 1
  /\ lastTarget' = targetPage
  /\ Silent
  /\ IF SamePage(targetPage) \/ Busy
     THEN /\ lastOutcome' = IF SamePage(targetPage) THEN "same" ELSE "busy"
          /\ UNCHANGED <<isTurning, pc, loopI, navFrom, navTarget, flipLog,
                         nCues, missed, pending, seqMounted, navPrefix>>
     ELSE /\ lastOutcome' = "accepted"
          /\ isTurning' = TRUE
          /\ navFrom' = cbPage
          /\ navTarget' = targetPage
          /\ loopI' = FirstI(targetPage)
          /\ pc' = IF LoopCond(cbPage, targetPage, FirstI(targetPage))
                   THEN "step" ELSE "settle"
          /\ flipLog' = <<>>
          /\ nCues' = 0
          /\ missed' = FALSE
          /\ pending' = TimersArmed(cbPage, targetPage, FirstI(targetPage))
          /\ seqMounted' = TRUE
          /\ navPrefix' = IsPrefix(flippedStates, currentPage)
  /\ UNCHANGED <<timelineResult, isInitialized, pages, seqState, pageRefs,
                 isFlipped, lastFlipped>>
  /\ UNCHANGED <<dataVersion, effectRuns, bookVars>>
  /\ Render

(* ----- BackBookmark.handleClick, BackBookmark.jsx:5-9 ----- *)
\* a bookmark that sends the index of its own leaf
ClickTargetOwnPage(carrier, targetPage) == carrier

\* onClick(e, targetPage): the target sent up is the bookmark's targetPage
ClickTarget(carrier, targetPage) == targetPage

(* ----- handleBookmarkClick, FlipBook.jsx:360-363 ----- *)
\* a click on the bookmark of leaf carrier; bookmarks are rendered on leaves
\* that are no covers (FlipPage.jsx:80-119).  e.stopPropagation() keeps the
\* event from the enclosing flip-page element
HandleBookmarkClick(carrier, targetPage) ==
  /\ carrier \in DOMAIN pages
  /\ ~IsCover(carrier)
  /\ lastClicked' = [page |-> carrier, target |-> targetPage]
  /\ FlipToPage(ClickTarget(carrier, targetPage))

(* ----- a click on the face of a leaf, FlipPage.jsx:69-122 ----- *)
\* a flip-page element that flips its leaf on click
PageHasOnClickFlip == TRUE

\* the flip-page element and its faces carry no onClick
PageHasOnClick == FALSE

PageClick(p) ==
  /\ Mounted
  /\ p \in DOMAIN pages
  /\ nReq < MaxRequests
  /\ nReq' = nReq + 1
  /\ lastOutcome' = "pageclick"
  /\ lastClicked' = [page |-> p, target |-> p]
  /\ IF PageHasOnClick
     THEN PageFlip(p)
     ELSE Silent /\ UNCHANGED <<seqState, isFlipped, flipLog, lastFlipped, nCues>>
  /\ UNCHANGED <<timelineResult, isInitialized, pages, isTurning, pageRefs,
                 pc, loopI, navFrom, navTarget, lastTarget, missed, pending,
                 seqMounted, navPrefix>>
  /\ UNCHANGED <<dataVersion, effectRuns, bookVars>>
  /\ Render

\* pageRefs.current[i]
RefAt(i) == IF i \in DOMAIN pageRefs THEN pageRefs[i] ELSE "undefined"

\* the call without optional chaining: it throws on every ref that is no handle
FlipThrowsUnchained(i) == RefAt(i) # "handle"

\* optional chaining skips the call on null and undefined only; a createRef
\* object has no flip, so calling it throws
FlipThrows(i) == RefAt(i) = "refobj"

\* the callback of a step timer: pageRefs.current[i]?.flip(); resolve();
\* followed by the continuation of the loop
StepTimer ==
  /\ pc = "step"
  /\ IF FlipThrows(loopI)
     THEN \* flip is not a function: the callback throws before resolve()
          /\ pc' = "thrown"
          /\ Silent
          /\ pending' = pending \ {loopI}
          /\ UNCHANGED <<seqState, isFlipped, flipLog, lastFlipped, nCues, loopI, missed>>
     ELSE IF RefAt(loopI) = "handle"
     THEN /\ PageFlip(loopI)
          /\ UNCHANGED missed
          /\ IF PlayThrows(lastPlay')
             THEN \* the callback throws after the flip and before resolve()
                  /\ pc' = "thrown" /\ UNCHANGED loopI
                  /\ pending' = pending \ {loopI}
             ELSE /\ loopI' = NextI(navFrom, navTarget, loopI)
                  /\ pending' = (pending \ {loopI}) \cup
                       TimersArmed(navFrom, navTarget, NextI(navFrom, navTarget, loopI))
                  /\ pc' = IF LoopCond(navFrom, navTarget, NextI(navFrom, navTarget, loopI))
                           THEN "step" ELSE "settle"
     ELSE /\ missed' = TRUE
          /\ Silent
          /\ UNCHANGED <<seqState, isFlipped, flipLog, lastFlipped, nCues>>
          /\ loopI' = NextI(navFrom, navTarget, loopI)
          /\ pending' = (pending \ {loopI}) \cup
               TimersArmed(navFrom, navTarget, NextI(navFrom, navTarget, loopI))
          /\ pc' = IF LoopCond(navFrom, navTarget, NextI(navFrom, navTarget, loopI))
                   THEN "step" ELSE "settle"
  /\ UNCHANGED <<timelineResult, isInitialized, pages, isTurning, pageRefs,
                 navFrom, navTarget, nReq, lastTarget, lastOutcome, lastClicked,
                 seqMounted, navPrefix>>
  /\ UNCHANGED <<dataVersion, effectRuns, bookVars>>
  /\ Render

\* a settle timer armed without awaiting the step timers
SettleTimerUnawaited ==
  /\ pc \in {"step", "settle"}
  /\ isTurning
  /\ isTurning' = FALSE
  /\ pc' = IF pc = "settle" THEN "idle" ELSE pc
  /\ Silent
  /\ UNCHANGED <<timelineResult, isInitialized, pages, seqState, pageRefs,
                 isFlipped, loopI, navFrom, navTarget, nReq, lastTarget,
                 lastOutcome, lastClicked, flipLog, lastFlipped, nCues, missed, pending,
                 seqMounted, navPrefix>>
  /\ UNCHANGED <<dataVersion, effectRuns, bookVars>>
  /\ Render

\* the callback of the settle timer: setIsTurning(false)
SettleTimer ==
  /\ pc = "settle"
  /\ isTurning' = FALSE
  /\ pc' = "idle"
  /\ Silent
  /\ UNCHANGED <<timelineResult, isInitialized, pages, seqState, pageRefs,
                 isFlipped, loopI, navFrom, navTarget, nReq, lastTarget,
                 lastOutcome, lastClicked, flipLog, lastFlipped, nCues, missed, pending,
                 seqMounted, navPrefix>>
  /\ UNCHANGED <<dataVersion, effectRuns, bookVars>>
  /\ Render

(* ----- external data arrives: setPlayer1Stats, setPlayer2Stats,  ----- *)
(* ----- setMatches, setSelectedMatchId, setChatMessages,          ----- *)
(* ----- setIsLoadingChat, FlipBook.jsx:28-130                     ----- *)
DataArrives ==
  /\ isInitialized
  /\ dataVersion < MaxData
  /\ dataVersion' = dataVersion + 1
  /\ Silent
  /\ UNCHANGED <<timelineResult, isInitialized, effectRuns, pages, seqState,
                 isTurning, pageRefs, isFlipped, pc, loopI, navFrom, navTarget, nReq,
                 lastTarget, lastOutcome, lastClicked, flipLog, lastFlipped,
                 nCues, missed, pending, seqMounted, navPrefix, bookVars>>
  /\ Render

Next ==
  \/ InitEffect
  \/ DataArrives
  \/ \E truthy \in BOOLEAN : SetTimelineResult(truthy)
  \/ \E carrier \in Indices(NumPages), targetPage \in Targets :
       HandleBookmarkClick(carrier, targetPage)
  \/ \E p \in Indices(NumPages) : PageClick(p)
  \/ StepTimer
  \/ SettleTimer

Spec == Init /\ [][Next]_vars

\* the timers of an accepted call fire
FairSpec == Spec /\ WF_vars(StepTimer) /\ WF_vars(SettleTimer)

(* ======================= pages/book.js ======================= *)
(* ----- the mount effect, book.js:16-24 ----- *)
BookFullscreenTimer ==
  /\ introPc = "wait"
  /\ bookFullscreen' = TRUE
  /\ introPc' = "expand"
  /\ UNCHANGED <<appFullscreen, bookPage, bookTurning, bookSettle, classTimers,
                 turnClass, visibleOpposite, bookReq, bookRequested, bookOutcome>>
  /\ UNCHANGED flipBookVars

AppFullscreenTimer ==
  /\ introPc = "expand"
  /\ appFullscreen' = TRUE
  /\ introPc' = "done"
  /\ UNCHANGED <<bookFullscreen, bookPage, bookTurning, bookSettle, classTimers,
                 turnClass, visibleOpposite, bookReq, bookRequested, bookOutcome>>
  /\ UNCHANGED flipBookVars

(* ----- turnPage, book.js:26-82 ----- *)
\* a book whose JSX lacks the element .page-9
ElementExistsBut9(i) == i \in BookPages \ {9}

\* document.querySelector(`.page-${i}`) finds an element: all 13 are in the JSX
ElementExists(i) == i \in BookPages

\* the values of i of the loop that turns the pages, in loop order
TurnRange(from, nextIndex) ==
  IF nextIndex < from
  THEN [k \in 1..(from - nextIndex) |-> from - k + 1]
  ELSE [k \in 1..(nextIndex - from) |-> from + k]

\* the delay and the class of the timer armed for element i
TurnTimer(from, nextIndex, i) ==
  IF nextIndex < from
  THEN [el |-> i, class |-> "turn", delay |-> (from - i) * 300]
  ELSE [el |-> i, class |-> "back-turn", delay |-> (i - from) * 300]

\* the number of iterations made before an element is missed
TurnedBeforeReturn(from, nextIndex) ==
  Cardinality({k \in DOMAIN TurnRange(from, nextIndex) :
                 \A m \in 1..k : ElementExists(TurnRange(from, nextIndex)[m])})

\* the first loops return: some element of the range is missing
TurnLoopReturns(from, nextIndex) ==
  TurnedBeforeReturn(from, nextIndex) < Len(TurnRange(from, nextIndex))

\* the loop over .page-11 .. .page-13 returns
OppositeLoopReturns == \E i \in 11..13 : ~ElementExists(i)

TurnPage(page, opposite) ==
  /\ bookRequested' = page
  /\ IF page = bookPage \/ bookTurning
     THEN /\ bookOutcome' = IF page = bookPage THEN "same" ELSE "busy"
          /\ UNCHANGED <<bookPage, bookTurning, bookSettle, classTimers,
                         turnClass, visibleOpposite>>
     ELSE /\ bookTurning' = TRUE
          /\ classTimers' =
               {TurnTimer(bookPage, page, TurnRange(bookPage, page)[k]) :
                  k \in 1..TurnedBeforeReturn(bookPage, page)}
          /\ IF TurnLoopReturns(bookPage, page) \/ OppositeLoopReturns
             THEN \* if (!turnPageEl) return: no 1000 ms timer is armed
                  /\ bookOutcome' = "stuck"
                  /\ UNCHANGED <<bookSettle, visibleOpposite>>
             ELSE /\ bookOutcome' = "accepted"
                  /\ visibleOpposite' = opposite
                  /\ bookSettle' = page
          /\ UNCHANGED <<bookPage, turnClass>>

(* ----- handleBookmarkClick, book.js:84-91; the bookmarks take no ----- *)
(* ----- pointer events before bookFullscreen, book.js:119-122     ----- *)
BookBookmarkClick(b) ==
  /\ bookFullscreen
  /\ bookReq < MaxRequests
  /\ bookReq' = bookReq + 1
  /\ TurnPage(b.page, b.opposite)
  /\ UNCHANGED <<bookFullscreen, appFullscreen, introPc>>
  /\ UNCHANGED flipBookVars

\* the armed class timer of the least delay fires, book.js:41-44, 55-58
BookClassTimer ==
  /\ classTimers # {}
  /\ \E t \in classTimers :
       /\ \A u \in classTimers : t.delay <= u.delay
       /\ turnClass' = [turnClass EXCEPT ![t.el] = t.class]
       /\ classTimers' = classTimers \ {t}
  /\ UNCHANGED <<bookFullscreen, appFullscreen, introPc, bookPage, bookTurning,
                 bookSettle, visibleOpposite, bookReq, bookRequested, bookOutcome>>
  /\ UNCHANGED flipBookVars

\* the 1000 ms timer fires after the class timers, whose delays are at most
\* 600 ms: setCurrentPage(nextIndex); setIsTurning(false), book.js:77-81
BookSettleTimer ==
  /\ bookSettle # 0
  /\ classTimers = {}
  /\ bookPage' = bookSettle
  /\ bookTurning' = FALSE
  /\ bookSettle' = 0
  /\ UNCHANGED <<bookFullscreen, appFullscreen, introPc, classTimers, turnClass,
                 visibleOpposite, bookReq, bookRequested, bookOutcome>>
  /\ UNCHANGED flipBookVars

BookNext ==
  \/ BookFullscreenTimer
  \/ AppFullscreenTimer
  \/ \E b \in Bookmarks : BookBookmarkClick(b)
  \/ BookClassTimer
  \/ BookSettleTimer

BookSpec == Init /\ [][BookNext]_vars

\* the timers of BookPage fire
BookFairSpec ==
  BookSpec /\ WF_vars(BookClassTimer) /\ WF_vars(BookSettleTimer)


\* some call of flipToPage has been accepted
Accepted == navTarget # navFrom

\* C1: in every reachable state currentPage equals the number of true
\* entries of flippedStates.
C1_CursorIsFlippedCount ==
  currentPage = Cardinality({i \in DOMAIN flippedStates : flippedStates[i] = TRUE})

\* a backward navigation has flipped pages back and pages remain flipped
C1_Witness ==
  /\ pc = "idle" /\ Accepted /\ navTarget < navFrom
  /\ Len(flipLog) > 0 /\ currentPage > 0

\* the indices a call from cursor from to target steps through
StepRange(from, target) == IF target > from THEN from..(target - 1) ELSE target..(from - 1)

\* this step is a call of flipToPage
IsRequest == nReq' = nReq + 1 /\ lastOutcome' # "pageclick"

\* this step is a click on the face of a leaf
IsPageClick == nReq' = nReq + 1 /\ lastOutcome' = "pageclick"

\* this step is a completed flip (handleFlip has run)
IsFlip == Len(flipLog') = Len(flipLog) + 1

C3_ForwardAscending ==
  [][(pc = "step" /\ navTarget > navFrom /\ flippedStates' # flippedStates) =>
       /\ loopI \in DOMAIN flippedStates
       /\ ~flippedStates[loopI]
       /\ flippedStates' = [flippedStates EXCEPT ![loopI] = TRUE]
       /\ \A k \in navFrom..(loopI - 1) : flippedStates[k]]_vars

\* C4: during an accepted backward navigation from C to T < C the entries of
\* flippedStates become false one at a time in descending order: a step
\* changes only the entry of its own index i, from true to false, and by then
\* every entry i+1..C-1 is false.
C4_BackwardDescending ==
  [][(pc = "step" /\ navTarget < navFrom /\ flippedStates' # flippedStates) =>
       /\ loopI \in DOMAIN flippedStates
       /\ flippedStates[loopI]
       /\ flippedStates' = [flippedStates EXCEPT ![loopI] = FALSE]
       /\ \A k \in (loopI + 1)..(navFrom - 1) : ~flippedStates[k]]_vars

\* the indices of StepRange in the order flipToPage visits them
StepSeq(from, target) ==
  IF target > from
  THEN [k \in 1..(target - from) |-> from + k - 1]
  ELSE [k \in 1..(from - target) |-> from - k]

\* C5: with every page unit mounted and 0 <= T <= number of pages, a call
\* accepted at cursor C with target T has, when it settles, flipped exactly
\* the pages between C and T, each once (|T - C| flips), currentPage = T and
\* flippedStates true exactly on 0..T-1.
C5_SettlesAtTarget ==
  (pc = "idle" /\ Accepted /\ seqMounted /\ navTarget \in 0..NumPages) =>
    /\ flipLog = StepSeq(navFrom, navTarget)
    /\ currentPage = navTarget
    /\ \A i \in DOMAIN flippedStates : flippedStates[i] <=> i < navTarget

\* C6: a call of flipToPage whose target equals currentPage schedules no
\* flip and no timer, leaves isTurning as it is (false when idle) and leaves
\* flippedStates, zIndices, currentPage and the boundary flags unchanged.
C6_SameTargetNoOp ==
  [][(IsRequest /\ lastTarget' = currentPage) =>
       UNCHANGED <<seqState, isTurning, pc, loopI, navFrom, navTarget,
                   isFlipped, pageRefs, flipLog, lastFlipped>>]_vars

\* an idle sequencer away from page 0 has just been asked for its own page
C6_Witness ==
  /\ lastOutcome = "same" /\ lastTarget = currentPage /\ currentPage > 0
  /\ pc = "idle" /\ ~isTurning

\* C7: a flip completion handleFlip(i, v) sets zIndices[i] to the previous
\* maximum of zIndices plus 1 and changes no other entry, so the page flipped
\* last holds the strictly greatest draw-order value.
C7_DrawOrderBump ==
  /\ [][IsFlip =>
          /\ \E k \in DOMAIN zIndices : zIndices'[lastFlipped'] = zIndices[k] + 1
          /\ \A k \in DOMAIN zIndices : zIndices[k] < zIndices'[lastFlipped']
          /\ \A k \in DOMAIN zIndices \ {lastFlipped'} : zIndices'[k] = zIndices[k]]_vars
  /\ [](lastFlipped # -1 =>
          \A k \in DOMAIN zIndices \ {lastFlipped} : zIndices[k] < zIndices[lastFlipped])

\* a page that was not on top of the initial stack has been flipped after
\* another page
C7_Witness ==
  /\ lastFlipped > 0 /\ Len(flipLog) >= 2
  /\ zIndices[lastFlipped] >= NumPages + 3

\* C8: onFirstPage is true exactly when flippedStates[0] is not true and
\* onLastPage exactly when the last entry of flippedStates is true.
C8_BoundaryFlags ==
  /\ onFirstPage <=> ~(0 \in DOMAIN flippedStates /\ flippedStates[0])
  /\ onLastPage <=> \E i \in DOMAIN flippedStates :
                       /\ i + 1 \notin DOMAIN flippedStates
                       /\ flippedStates[i]

\* the last page has been flipped
C8_Witness ==
  /\ lastFlipped = NumPages - 1 /\ onLastPage /\ ~onFirstPage

\* C9: every accepted call of flipToPage returns the sequencer to Idle: no
\* step callback throws, and isTurning, once true, becomes false again with
\* no timer pending, whatever the target and whether or not the page units
\* are mounted.
C9_ReturnsToIdle ==
  /\ [](pc # "thrown")
  /\ (isTurning ~> (~isTurning /\ pc = "idle"))

\* a call whose steps found no page unit has settled
C9_Witness ==
  /\ pc = "idle" /\ ~isTurning /\ Accepted /\ missed

\* C10: once a step of a call has found its page unit missing, no later step
\* of the same call flips a page.
C10_NoFlipAfterMissing ==
  [][(pc = "step" /\ missed) => UNCHANGED seqState]_vars

\* C11: a click on a bookmark with target N is the call flipToPage(N) and
\* nothing else: the click step writes what flipToPage(N) writes, flips no
\* page itself, and the leaf carrying the bookmark is flipped by the
\* navigation only if it lies in the range between cursor and target; a
\* navigation that ran with its units mounted from a regular book ends at N.
C11_BookmarkClickNavigates ==
  /\ [][IsRequest =>
          /\ lastTarget' = lastClicked'.target
          /\ UNCHANGED <<seqState, isFlipped, pageRefs, lastFlipped>>
          /\ IF lastClicked'.target = currentPage \/ isTurning
             THEN UNCHANGED <<isTurning, pc, loopI, navFrom, navTarget>>
             ELSE /\ isTurning' /\ pc' = "step"
                  /\ navFrom' = currentPage
                  /\ navTarget' = lastClicked'.target
                  /\ loopI' = IF navTarget' > currentPage
                              THEN currentPage ELSE currentPage - 1]_vars
  /\ []((lastOutcome = "accepted" /\ lastClicked.page \notin StepRange(navFrom, navTarget))
          => \A k \in 1..Len(flipLog) : flipLog[k] # lastClicked.page)
  /\ []((pc = "idle" /\ lastOutcome = "accepted" /\ seqMounted /\ navPrefix
          /\ navTarget \in 0..NumPages) => currentPage = lastClicked.target)

\* a bookmark whose own leaf lies in the range of its navigation was clicked
\* and the navigation has settled at the bookmark's target
C11_Witness ==
  /\ pc = "idle" /\ lastOutcome = "accepted" /\ seqMounted /\ navPrefix
  /\ lastClicked.page \in StepRange(navFrom, navTarget)
  /\ lastClicked.target # lastClicked.page
  /\ currentPage = lastClicked.target /\ Len(flipLog) >= 2

\* C12 as stated: a click on the face of leaf P acts as flipToPage(P + 1)
\* when P is unflipped (advancing) and as flipToPage(P) when P is flipped
\* (retreating), under the same-page and in-flight guards.
C12_ManualClickNavigates ==
  [][IsPageClick =>
       LET P == lastClicked'.page
           T == IF flippedStates[P] THEN P ELSE P + 1
       IN  IF T = currentPage \/ isTurning
           THEN UNCHANGED <<seqState, isTurning, pc, navFrom, navTarget>>
           ELSE /\ isTurning' /\ pc' = "step"
                /\ navFrom' = currentPage /\ navTarget' = T]_vars

\* C13 as stated: once the book is mounted, the host's wait ends and an intro
\* navigation request is issued without any click: from a mounted book on
\* which nothing was clicked, a navigation is eventually in flight (or a
\* click came first).
C13_IntroIssued ==
  (isInitialized /\ Mounted /\ nReq = 0) ~> (isTurning \/ nReq > 0)

\* C14: each flip() toggles the local flag of that unit alone and calls
\* onFlip exactly once with the new (negated) value; the value reported is the
\* opposite of the one the unit reported in its previous flip().
C14_FlipTogglesAndReports ==
  [][IsFlip =>
       LET i == lastFlipped'
       IN  /\ isFlipped'[i] = ~isFlipped[i]
           /\ \A j \in DOMAIN isFlipped \ {i} : isFlipped'[j] = isFlipped[j]
           /\ flipLog' = Append(flipLog, i)
           /\ flippedStates'[i] = isFlipped'[i]
           /\ flippedStates'[i] = ~flippedStates[i]]_vars

\* the last flip() of a unit reported false: an earlier one had reported true
C14_Witness ==
  /\ Mounted /\ lastFlipped >= 0
  /\ ~flippedStates[lastFlipped] /\ ~isFlipped[lastFlipped]

\* C15: a unit takes over the value of its flipped prop as its local flag
\* without calling onFlip: a change of a local flag that is no flip() writes
\* nothing of the sequencer's state, and plays no sound.
C15_PropAdoptionSilent ==
  /\ [][(isInitialized /\ isFlipped' # isFlipped /\ ~IsFlip) =>
          /\ UNCHANGED <<seqState, flipLog, lastFlipped, nCues>>
          /\ lastCue' = "none"
          /\ timelineResult' =>
               \A i \in DOMAIN isFlipped' : isFlipped'[i] = flippedStates'[i]]_vars
  /\ [](Mounted => \A i \in DOMAIN isFlipped : isFlipped[i] = flippedStates[i])

\* a unit mounted again during a navigation has taken over the true of a page
\* that this navigation has not flipped
C15_Witness ==
  /\ Mounted /\ pc = "step" /\ ~seqMounted
  /\ \E i \in DOMAIN isFlipped :
       /\ isFlipped[i]
       /\ \A k \in 1..Len(flipLog) : flipLog[k] # i

\* C16: when play() is rejected the flip has happened all the same
\* (flippedStates, zIndices and currentPage are updated through onFlip), the
\* step timer resolves and the loop goes on; no callback ever throws.
C16_SoundFailureHarmless ==
  /\ [][(IsFlip /\ lastPlay' = "rejected") =>
          LET i == lastFlipped'
          IN  /\ flippedStates'[i] = ~isFlipped[i]
              /\ \A j \in DOMAIN zIndices : zIndices'[i] > zIndices[j]
              /\ currentPage' =
                   Cardinality({j \in DOMAIN flippedStates' : flippedStates'[j] = TRUE})
              /\ pc = "step" =>
                   /\ pc' \in {"step", "settle"}
                   /\ loopI' = IF navTarget > navFrom THEN loopI + 1 ELSE loopI - 1]_vars
  /\ [](pc # "thrown")

\* the sound of a flip was rejected and the next step of the sequence is pending
C16_Witness ==
  /\ lastPlay = "rejected" /\ pc = "step" /\ Len(flipLog) >= 1
  /\ flippedStates[lastFlipped] = (navTarget > navFrom)

\* C17: every flip plays exactly one sound: an ordinary leaf one of the 12
\* page-turn sounds, the front cover cover-open when it becomes flipped and
\* cover-close when it becomes unflipped, the back cover the opposite; a step
\* that is no flip plays none.
C17_CueByKindAndDirection ==
  /\ [][IsFlip =>
          LET i == lastFlipped'
              to == flippedStates'[i]
          IN  /\ nCues' = nCues + 1
              /\ IF 0 < i /\ i < Len0(pages) - 1
                 THEN Len(FlipSounds) = 12 /\ \E k \in 1..12 : lastCue' = FlipSounds[k]
                 ELSE IF i = 0
                 THEN lastCue' = (IF to THEN "cover-open" ELSE "cover-close")
                 ELSE lastCue' = (IF to THEN "cover-close" ELSE "cover-open")]_vars
  /\ [][~IsFlip => (lastCue' = "none" /\ nCues' \in {nCues, 0})]_vars
  /\ [](nCues = Len(flipLog))

\* the back cover has just been turned back and played cover-open
C17_Witness ==
  /\ Mounted /\ lastFlipped = Len0(pages) - 1
  /\ ~flippedStates[lastFlipped] /\ lastCue = "cover-open"

\* C18: once initialised, flippedStates, zIndices, currentPage and the two
\* boundary flags change only in a handleFlip call, which writes the entry of
\* the reporting page alone; a unit's flip changes no other unit's flag; no
\* click, accepted or rejected, writes any of this state.
C18_HandleFlipSoleWriter ==
  /\ [][(isInitialized /\ seqState' # seqState) =>
          /\ IsFlip
          /\ \A j \in DOMAIN flippedStates \ {lastFlipped'} :
               /\ flippedStates'[j] = flippedStates[j]
               /\ zIndices'[j] = zIndices[j]
               /\ isFlipped'[j] = isFlipped[j]]_vars
  /\ [][nReq' = nReq + 1 => UNCHANGED <<seqState, isFlipped>>]_vars

\* a request was dropped in the middle of a sequence that has flipped a page
C18_Witness ==
  /\ lastOutcome = "busy" /\ pc = "step" /\ Len(flipLog) >= 1
  /\ lastClicked.page \in DOMAIN pages

\* C19: whenever no navigation is running and the page units are mounted, the
\* flipped pages are exactly the pages 0..currentPage-1.
C19_FlippedPrefixWhenIdle ==
  (pc = "idle" /\ ~isTurning /\ Mounted) =>
    \A i \in DOMAIN flippedStates : flippedStates[i] <=> i < currentPage

\* C20: every flip of a forward navigation turns its page from unflipped to
\* flipped and every flip of a backward navigation from flipped to unflipped.
C20_FlipsFollowDirection ==
  [][(IsFlip /\ pc = "step") =>
       /\ flippedStates[lastFlipped'] = ~(navTarget > navFrom)
       /\ flippedStates'[lastFlipped'] = (navTarget > navFrom)]_vars

\* C21: isTurning stays true while a step or the settle timer of the accepted
\* call is pending, it is cleared by the settle timer alone, and no request
\* that arrives in between is accepted.
C21_GuardHeldUntilSettled ==
  /\ [](pc \in {"step", "settle"} => isTurning)
  /\ [][(isTurning /\ ~isTurning') => (pc = "settle" /\ pc' = "idle")]_vars
  /\ [][(IsRequest /\ pc # "idle") =>
          /\ lastOutcome' # "accepted"
          /\ UNCHANGED <<isTurning, pc, loopI, navFrom, navTarget, flipLog>>]_vars

\* a request was dropped during the settle delay of a sequence of two flips
C21_Witness ==
  /\ pc = "settle" /\ isTurning /\ Len(flipLog) >= 2
  /\ lastOutcome \in {"busy", "same"} /\ lastTarget # navTarget

\* C22: the flips of one call are serialised: at most one step timer is armed
\* at any time, it is the one of the loop variable, the next one is armed only
\* when it has fired, every handleFlip call writes on top of the state left
\* by the one before, and the calls come in the order of the loop.
C22_StepsSerialised ==
  /\ [](Cardinality(pending) <= 1)
  /\ [](IF pc = "step" THEN pending = {loopI} ELSE pending = {})
  /\ [][pending' # pending =>
          (\/ pending = {} /\ IsRequest
           \/ pending = {loopI} /\ pending' \subseteq
                 {IF navTarget > navFrom THEN loopI + 1 ELSE loopI - 1})]_vars
  /\ [][(IsFlip /\ pc = "step") =>
          LET i == lastFlipped'
          IN  /\ i = loopI
              /\ flippedStates' = [flippedStates EXCEPT ![i] = ~isFlipped[i]]
              /\ \A j \in DOMAIN zIndices :
                    zIndices'[j] = IF j = i THEN MaxZ(zIndices) + 1 ELSE zIndices[j]]_vars
  /\ [](\A k \in 1..(Len(flipLog) - 1) :
          IF navTarget > navFrom THEN flipLog[k] < flipLog[k + 1]
                                 ELSE flipLog[k] > flipLog[k + 1])

\* the second flip of a sequence has been applied and a third step is armed
C22_Witness ==
  /\ pc = "step" /\ Len(flipLog) >= 2 /\ pending = {loopI}
  /\ currentPage = Cardinality({j \in DOMAIN flippedStates : flippedStates[j]})

C24_OutOfRangeEndsAtBoundary ==
  (pc = "idle" /\ Accepted /\ seqMounted) =>
    /\ navTarget > Len0(pages) => currentPage = Len0(pages)
    /\ navTarget < 0 => currentPage = 0

\* C25: whenever no navigation is running and the page units of a book of at
\* least two pages are mounted, onFirstPage is true exactly at cursor 0,
\* onLastPage exactly at cursor N, and the two are never both true.
C25_FlagsAgreeWithCursor ==
  (pc = "idle" /\ ~isTurning /\ Mounted /\ Len0(pages) >= 2) =>
    /\ onFirstPage <=> currentPage = 0
    /\ onLastPage <=> currentPage = Len0(pages)
    /\ ~(onFirstPage /\ onLastPage)

\* C26: the local flag of every mounted page unit equals the flippedStates
\* entry of its page, so each flip() reports the negation of that entry.
C26_LocalFlagMatchesOwner ==
  /\ [](Mounted => isFlipped = flippedStates)
  /\ [][IsFlip =>
          LET i == lastFlipped'
          IN  /\ isFlipped[i] = flippedStates[i]
              /\ flippedStates'[i] = ~flippedStates[i]
              /\ isFlipped' = flippedStates']_vars

\* units mounted again after a flip hold a mix of true and false flags
C26_Witness ==
  /\ Mounted /\ ~seqMounted /\ pc = "idle" /\ Len(flipLog) >= 1
  /\ \E i, j \in DOMAIN isFlipped : isFlipped[i] /\ flippedStates[i] /\ ~isFlipped[j]

\* C27: the draw-order values of the pages are pairwise distinct, none ever
\* decreases, and every handleFlip call raises their maximum by exactly 1.
C27_DrawOrderDistinctMonotone ==
  /\ [](\A i, j \in DOMAIN zIndices : i # j => zIndices[i] # zIndices[j])
  /\ [][isInitialized =>
          \A i \in DOMAIN zIndices : zIndices'[i] >= zIndices[i]]_vars
  /\ [][IsFlip =>
          \E i \in DOMAIN zIndices :
            /\ \A j \in DOMAIN zIndices : zIndices[j] <= zIndices[i]
            /\ \A j \in DOMAIN zIndices : zIndices'[j] <= zIndices[i] + 1
            /\ \E j \in DOMAIN zIndices : zIndices'[j] = zIndices[i] + 1]_vars
  /\ [][(isInitialized /\ ~IsFlip) => zIndices' = zIndices]_vars

\* the page that was on top has been flipped, and two more flips have followed
C27_Witness ==
  /\ pc = "idle" /\ Len(flipLog) >= 2
  /\ \E i \in DOMAIN zIndices : zIndices[i] >= Len0(pages) + 4

\* C28: the content made by getPageContent differs from its descriptor in
\* the front and back faces alone (id, position, cover and bookmark are
\* those of the descriptor), and an arrival of external data leaves the page
\* list, the initialisation, flippedStates, zIndices, currentPage, the flags,
\* isTurning and the running sequence untouched.
C28_ContentSwapKeepsIdentity ==
  /\ [](\A i \in DOMAIN rendered :
          /\ rendered[i].id = i /\ pages[i].id = i
          /\ rendered[i].bookmark = pages[i].bookmark
          /\ rendered[i].cover = pages[i].cover
          /\ rendered[i].frontCover = pages[i].frontCover
          /\ rendered[i].front.token = pages[i].front.token
          /\ rendered[i].back.token = pages[i].back.token
          /\ ~pages[i].cover =>
                /\ rendered[i].front.payload = dataVersion + 1
                /\ rendered[i].back.payload = dataVersion + 1)
  /\ [][dataVersion' # dataVersion =>
          UNCHANGED <<pages, isInitialized, seqState, isTurning, isFlipped,
                      pageRefs, pc, loopI, navFrom, navTarget, flipLog, pending>>]_vars
  /\ [][isInitialized => pages' = pages]_vars

\* data has arrived twice in the middle of a sequence that has flipped a page
C28_Witness ==
  /\ Mounted /\ pc = "step" /\ Len(flipLog) >= 1 /\ dataVersion = 2
  /\ \E i \in DOMAIN rendered : rendered[i].front.payload = 3

\* C29: the first run of the initialisation effect leaves a book of N pages
\* with every page unflipped, currentPage 0, onFirstPage true, onLastPage
\* false, isTurning false and draw order N - i + 1 for page i; the book is
\* never initialised again, and a later run of the effect changes nothing.
C29_InitialisedOnce ==
  /\ [][(~isInitialized /\ isInitialized') =>
          /\ DOMAIN flippedStates' = 0..(NumPages - 1)
          /\ DOMAIN zIndices' = 0..(NumPages - 1)
          /\ \A i \in 0..(NumPages - 1) :
                ~flippedStates'[i] /\ zIndices'[i] = NumPages - i + 1
          /\ \A i \in 0..(NumPages - 2) : zIndices'[i] > zIndices'[i + 1]
          /\ currentPage' = 0 /\ onFirstPage' /\ ~onLastPage' /\ ~isTurning']_vars
  /\ [][isInitialized => isInitialized']_vars
  /\ [][(isInitialized /\ effectRuns' # effectRuns) =>
          UNCHANGED <<pages, seqState, isTurning, isFlipped, pageRefs, pc, loopI>>]_vars

\* the effect has run a second time on a book in which pages are flipped
C29_Witness ==
  /\ isInitialized /\ effectRuns = 2 /\ Mounted
  /\ currentPage >= 1 /\ Len(flipLog) >= 1
  /\ \E i \in DOMAIN zIndices : zIndices[i] > NumPages + 1

\* a bookmark of the legacy book page is clicked
IsBookClick == bookReq' = bookReq + 1

\* C30: in pages/book.js a turnPage(page) with page = currentPage or while
\* isTurning changes nothing; every other call sets isTurning and arms the
\* 1000 ms timer, after which currentPage is the requested page and isTurning
\* is false again: isTurning is never left set without that timer.
C30_LegacyTurnSettles ==
  /\ [][(IsBookClick /\ (bookRequested' = bookPage \/ bookTurning)) =>
          UNCHANGED <<bookPage, bookTurning, bookSettle, classTimers, turnClass,
                      visibleOpposite>>]_vars
  /\ [][(IsBookClick /\ bookRequested' # bookPage /\ ~bookTurning) =>
          (bookTurning' /\ bookSettle' = bookRequested' /\ bookPage' = bookPage)]_vars
  /\ [](bookTurning <=> bookSettle # 0)
  /\ [][(bookTurning /\ ~bookTurning') => bookPage' = bookSettle]_vars
  /\ \A p \in {b.page : b \in Bookmarks} :
        (bookTurning /\ bookSettle = p) ~> (~bookTurning /\ bookPage = p)

\* the book was turned from page 10 to page 8 and is free for the next click
C30_Witness ==
  /\ bookOutcome = "accepted" /\ bookRequested = 8 /\ bookPage = 8
  /\ ~bookTurning /\ turnClass[9] = "turn" /\ turnClass[10] = "turn"
  /\ visibleOpposite = 13

TypeOK ==
  /\ timelineResult \in BOOLEAN
  /\ isTurning \in BOOLEAN
  /\ pc \in {"idle", "step", "settle", "thrown"}
  /\ currentPage \in 0..NumPages
  /\ lastPlay \in PlayOutcomes \cup {"none"}
  /\ nCues \in 0..NumPages

====
